---- MODULE Spec2Model ----
(***************************************************************************)
(* Lib/collections.py: the NamedTuple factory.                             *)
(*                                                                         *)
(* NamedTuple(typename, s) builds the text of a tuple subclass, executes   *)
(* it and returns the class.  The model follows the text the function      *)
(* builds: the field names split from s, the name validation, argtxt, the  *)
(* generated __new__, __replace__, __fields__ and the per-field            *)
(* properties.  A Python str is a sequence of one-character strings; a     *)
(* Python value is a record tagged by its type.                            *)
(***************************************************************************)
EXTENDS Integers, Sequences, FiniteSets, TLC

VARIABLES typename, declared, s, pc, exc, result, p, call

vars == <<typename, declared, s, pc, exc, result, p, call>>

(***************************************************************************)
(* Bounds and input alphabets.                                             *)
(***************************************************************************)
\* Most field names a field specification holds.
MaxFields == 2

\* The non-ASCII letter U+00E9: alphanumeric for str.isalnum, and a letter
\* of an identifier.
EAcute == "U+00E9"

AsciiLetters ==
    {"a", "c", "d", "e", "f", "i", "l", "n", "o", "p", "r", "s", "t", "w",
     "x", "y", "z", "T"}
Letters == AsciiLetters \cup {EAcute}
Digits == {"1"}
Whitespace == {" "}

\* The type names create is called with.
TypeNames ==
    { <<"T">>, <<"_">>, <<"T", "!">>, <<"1">> }

\* The field names a field specification is made of.
FieldNames ==
    { <<"x">>, <<"y">>, <<"_">>, <<EAcute>>, <<"1">>, <<"i", "f">>,
      <<"c", "l", "s">>, <<"x", "!">> }

\* A keyword argument name that no field specification of a class declares
\* (as is "cls", the first parameter of the generated __new__).
UnknownName == <<"z">>

\* An int object.
PyInt(n) == [ty |-> "int", n |-> n]

\* The element values instances are built from.
Values == {PyInt(10), PyInt(20)}

\* The pickle protocols of the interpreter the module targets.
Protocols == {0, 1, 2}

None == [ty |-> "NoneType"]

(***************************************************************************)
(* str methods, computed character by character.                           *)
(***************************************************************************)
RECURSIVE str_replace(_, _, _)
\* str.replace(old, new) for a one-character old.
str_replace(str, old, new) ==
    IF str = <<>> THEN <<>>
    ELSE (IF Head(str) = old THEN new ELSE <<Head(str)>>)
         \o str_replace(Tail(str), old, new)

RECURSIVE SplitFrom(_, _)
\* The words of str after the word cur that is being read.
SplitFrom(str, cur) ==
    IF str = <<>>
    THEN IF cur = <<>> THEN <<>> ELSE <<cur>>
    ELSE IF Head(str) \in Whitespace
         THEN (IF cur = <<>> THEN <<>> ELSE <<cur>>) \o SplitFrom(Tail(str), <<>>)
         ELSE SplitFrom(Tail(str), Append(cur, Head(str)))

\* str.split(): the maximal runs of non-whitespace characters.
str_split(str) == SplitFrom(str, <<>>)

RECURSIVE str_join(_, _)
\* sep.join(strs).
str_join(sep, strs) ==
    IF strs = <<>> THEN <<>>
    ELSE IF Len(strs) = 1 THEN strs[1]
    ELSE strs[1] \o sep \o str_join(sep, Tail(strs))

\* str.isalnum(): at least one character, and every character a letter or a
\* digit.
str_isalnum(str) ==
    /\ str # <<>>
    /\ \A i \in 1..Len(str) : str[i] \in Letters \cup Digits

\* str[1:-1].
Slice1m1(str) ==
    IF Len(str) <= 2 THEN <<>> ELSE SubSeq(str, 2, Len(str) - 1)

\* repr of a str without quotes or backslashes in it.
str_repr(str) == <<"'">> \o str \o <<"'">>

\* repr of a tuple of str: ('x', 'y'), ('x',) and ().
tuple_repr(names) ==
    <<"(">>
    \o str_join(<<",", " ">>, [i \in 1..Len(names) |-> str_repr(names[i])])
    \o (IF Len(names) = 1 THEN <<",">> ELSE <<>>)
    \o <<")">>

(***************************************************************************)
(* The field specification.                                                *)
(***************************************************************************)
\* The ways a caller writes the field names down.
Forms == {"spaces", "commas", "comma_space", "padded", "list"}

Separator(form) ==
    CASE form = "spaces" -> <<" ">>
      [] form = "commas" -> <<",">>
      [] form = "comma_space" -> <<",", " ">>
      [] form = "padded" -> <<" ", ",", " ", " ">>

\* The argument s for the names written in a form: a str of the names and
\* separators (with blanks around it when padded), or a list of the names.
FieldSpec(form, names) ==
    IF form = "list"
    THEN [ty |-> "list", items |-> names]
    ELSE [ty |-> "str",
          chars |-> (IF form = "padded" THEN <<" ">> ELSE <<>>)
                    \o str_join(Separator(form), names)
                    \o (IF form = "padded" THEN <<" ", " ">> ELSE <<>>)]

\* The sequences over S of length at most n.
SeqUpTo(S, n) == UNION { [1..k -> S] : k \in 0..n }

(***************************************************************************)
(* The generated class text, read back the way exec reads it.              *)
(***************************************************************************)
Keywords == { <<"i", "f">>, <<"i", "n">>, <<"i", "s">>, <<"o", "r">> }

\* IsIdentifier that takes a reserved word for an identifier.
IsIdentifier_NoKeywords(name) ==
    /\ name # <<>>
    /\ name[1] \in Letters \cup {"_"}
    /\ \A i \in 1..Len(name) : name[i] \in Letters \cup Digits \cup {"_"}

\* An identifier of the language: a letter or underscore, then letters,
\* digits and underscores, and no reserved word.
IsIdentifier(name) ==
    /\ name # <<>>
    /\ name[1] \in Letters \cup {"_"}
    /\ \A i \in 1..Len(name) : name[i] \in Letters \cup Digits \cup {"_"}
    /\ name \notin Keywords

RECURSIVE PiecesFrom(_, _)
\* The comma-separated pieces of text after the piece cur that is being
\* read, blanks dropped from each piece.
PiecesFrom(text, cur) ==
    IF text = <<>> THEN <<cur>>
    ELSE IF Head(text) = "," THEN <<cur>> \o PiecesFrom(Tail(text), <<>>)
    ELSE IF Head(text) \in Whitespace THEN PiecesFrom(Tail(text), cur)
    ELSE PiecesFrom(Tail(text), Append(cur, Head(text)))

\* The items of a comma-separated list in source text; one trailing comma
\* ends the list without adding an item.
ListItems(text) ==
    LET pieces == PiecesFrom(text, <<>>)
    IN  IF pieces[Len(pieces)] = <<>>
        THEN SubSeq(pieces, 1, Len(pieces) - 1)
        ELSE pieces

\* The parameters of "def __new__(cls, <argtxt>):".
NewParams(argtxt) == ListItems(<<"c", "l", "s", ",", " ">> \o argtxt)

\* The expression "(<argtxt>)" of __new__: a tuple display when the text is
\* empty or holds a comma, a parenthesised name otherwise.
NewDisplay(argtxt) ==
    [ istuple |-> argtxt = <<>> \/ \E i \in 1..Len(argtxt) : argtxt[i] = ",",
      names |-> ListItems(argtxt) ]

\* The value of the literal %(field_names)r in the class text.
EvalTupleRepr(text) ==
    LET items == ListItems(Slice1m1(text))
    IN  [i \in 1..Len(items) |-> Slice1m1(items[i])]

\* SyntaxErrorIn that lets a parameter name occur twice.
SyntaxErrorIn_NoDuplicateCheck(name, params, propnames) ==
    \/ ~IsIdentifier(name)
    \/ \E i \in 1..Len(params) : ~IsIdentifier(params[i])
    \/ \E i \in 1..Len(propnames) : ~IsIdentifier(propnames[i])

\* Whether compiling the class text raises SyntaxError: the class name and
\* every parameter and property name must be an identifier, and no
\* parameter name may occur twice.
SyntaxErrorIn(name, params, propnames) ==
    \/ ~IsIdentifier(name)
    \/ \E i \in 1..Len(params) : ~IsIdentifier(params[i])
    \/ \E i, j \in 1..Len(params) : i # j /\ params[i] = params[j]
    \/ \E i \in 1..Len(propnames) : ~IsIdentifier(propnames[i])

Dunder(word) == <<"_", "_">> \o word \o <<"_", "_">>
DunderSlots == Dunder(<<"s", "l", "o", "t", "s">>)
DunderFields == Dunder(<<"f", "i", "e", "l", "d", "s">>)
DunderNew == Dunder(<<"n", "e", "w">>)
DunderRepr == Dunder(<<"r", "e", "p", "r">>)
DunderReplace == Dunder(<<"r", "e", "p", "l", "a", "c", "e">>)

\* ClassBody whose properties count the fields from one.
ClassBody_ItemgetterFromOne(tname, field_names, argtxt) ==
    << <<DunderSlots, [kind |-> "tuple", items |-> <<>>]>>,
       <<DunderFields,
         [kind |-> "tuple", items |-> EvalTupleRepr(tuple_repr(field_names))]>>,
       <<DunderNew,
         [kind |-> "function", params |-> NewParams(argtxt),
          display |-> NewDisplay(argtxt)]>>,
       <<DunderRepr, [kind |-> "function"]>>,
       <<DunderReplace,
         [kind |-> "function", cls |-> tname,
          names |-> EvalTupleRepr(tuple_repr(field_names))]>> >>
    \o [i \in 1..Len(field_names) |->
          <<field_names[i], [kind |-> "property", itemgetter |-> i]>>]

\* The bindings the class body makes, in the order of the template.
ClassBody(tname, field_names, argtxt) ==
    << <<DunderSlots, [kind |-> "tuple", items |-> <<>>]>>,
       <<DunderFields,
         [kind |-> "tuple", items |-> EvalTupleRepr(tuple_repr(field_names))]>>,
       <<DunderNew,
         [kind |-> "function", params |-> NewParams(argtxt),
          display |-> NewDisplay(argtxt)]>>,
       <<DunderRepr, [kind |-> "function"]>>,
       <<DunderReplace,
         [kind |-> "function", cls |-> tname,
          names |-> EvalTupleRepr(tuple_repr(field_names))]>> >>
    \o [i \in 1..Len(field_names) |->
          <<field_names[i], [kind |-> "property", itemgetter |-> i - 1]>>]

RECURSIVE dict_of(_)
\* dict(pairs): a later pair with the same key replaces an earlier one.  The
\* class dictionary is built the same way from the bindings of the body.
dict_of(pairs) ==
    IF pairs = <<>> THEN <<>>
    ELSE LET n == Len(pairs)
             before == dict_of(SubSeq(pairs, 1, n - 1))
             last == pairs[n]
         IN  [k \in DOMAIN before \cup {last[1]} |->
                 IF k = last[1] THEN last[2] ELSE before[k]]

\* sys._getframe exists in this interpreter.
HasGetFrame == TRUE

\* The module NamedTuple is called from.
CallerModule == "__main__"

(***************************************************************************)
(* NamedTuple(typename, s), line by line.                                  *)
(***************************************************************************)
\* field_names that splits at whitespace only.
field_names_NoCommas(spec) == str_split(spec.chars)

\* tuple(s.replace(',', ' ').split())
field_names(spec) == str_split(str_replace(spec.chars, ",", <<" ">>))

\* NamesAreAlnum that leaves the underscores in.
NamesAreAlnum_KeepUnderscores(tname, names) ==
    str_isalnum(str_join(<<>>, <<tname>> \o names))

\* ''.join((typename,) + field_names).replace('_', '').isalnum()
NamesAreAlnum(tname, names) ==
    str_isalnum(str_replace(str_join(<<>>, <<tname>> \o names), "_", <<>>))

\* argtxt as ', '.join(field_names): no comma after a single name.
argtxt_Joined(names) == str_join(<<",", " ">>, names)

\* repr(field_names).replace("'", "")[1:-1]
argtxt(names) == Slice1m1(str_replace(tuple_repr(names), "'", <<>>))

\* The class object exec leaves in m[typename], with __module__ set.
ClassObject(tname, names) ==
    [ ty |-> "type",
      name |-> tname,
      module |-> IF HasGetFrame THEN CallerModule ELSE "builtins",
      dict |-> dict_of(ClassBody(tname, names, argtxt(names))) ]

\* What the call raises, "None" when it returns.
NamedTupleRaises(tname, spec) ==
    IF spec.ty # "str" THEN "AttributeError"
    ELSE LET names == field_names(spec)
         IN  IF ~NamesAreAlnum(tname, names) THEN "ValueError"
             ELSE IF SyntaxErrorIn(tname, NewParams(argtxt(names)), names)
                  THEN "SyntaxError"
                  ELSE "None"

(***************************************************************************)
(* Calls on the generated class.                                           *)
(***************************************************************************)
TupleName == <<"t", "u", "p", "l", "e">>

\* A tuple object of class cname.
PyTuple(cname, items) == [ty |-> "tuple", cls |-> cname, items |-> items]

\* A reference to a class object.
ClassRef(cls) == [ty |-> "type", name |-> cls.name]

Returned(v) == [exc |-> "None", value |-> v]
Raised(e) == [exc |-> e, value |-> None]

\* BindFails that accepts a keyword no parameter is named by.
BindFails_NoUnexpected(params, positional, kwargs) ==
    \/ Len(positional) > Len(params)
    \/ \E k \in DOMAIN kwargs :
          \E i \in 1..Len(positional) : i <= Len(params) /\ params[i] = k
    \/ \E i \in (Len(positional) + 1)..Len(params) : params[i] \notin DOMAIN kwargs

\* BindFails that accepts a keyword for a parameter given positionally.
BindFails_NoMultiple(params, positional, kwargs) ==
    \/ Len(positional) > Len(params)
    \/ \E k \in DOMAIN kwargs : \A i \in 1..Len(params) : params[i] # k
    \/ \E i \in (Len(positional) + 1)..Len(params) : params[i] \notin DOMAIN kwargs

\* The binding of a call's arguments to a function's parameters fails:
\* too many positional arguments, an unexpected keyword, a parameter given
\* twice, or a parameter given no value.
BindFails(params, positional, kwargs) ==
    \/ Len(positional) > Len(params)
    \/ \E k \in DOMAIN kwargs : \A i \in 1..Len(params) : params[i] # k
    \/ \E k \in DOMAIN kwargs :
          \E i \in 1..Len(positional) : i <= Len(params) /\ params[i] = k
    \/ \E i \in (Len(positional) + 1)..Len(params) : params[i] \notin DOMAIN kwargs

\* The local variables of the call once bound.
Bind(params, positional, kwargs) ==
    [name \in {params[i] : i \in 1..Len(params)} |->
        LET i == CHOOSE j \in 1..Len(params) : params[j] = name
        IN  IF i <= Len(positional) THEN positional[i] ELSE kwargs[name]]

\* tuple.__new__(cls, arg): arg is iterated.
tuple_new(cname, arg) ==
    IF arg.ty = "tuple" THEN Returned(PyTuple(cname, arg.items))
    ELSE Raised("TypeError")

\* cls.__new__(cls, *args, **kwargs) with the generated __new__.
CallNew(cls, args, kwargs) ==
    LET new == cls.dict[DunderNew]
    IN  IF new.kind # "function" THEN Raised("TypeError")
        ELSE IF BindFails(new.params, <<ClassRef(cls)>> \o args, kwargs)
             THEN Raised("TypeError")
             ELSE LET locals == Bind(new.params, <<ClassRef(cls)>> \o args, kwargs)
                      d == new.display
                  IN  tuple_new(locals[new.params[1]].name,
                        IF d.istuple
                        THEN PyTuple(TupleName,
                               [i \in 1..Len(d.names) |-> locals[d.names[i]]])
                        ELSE locals[d.names[1]])

\* zip(a, b)
zip(a, b) ==
    [i \in 1..(IF Len(a) <= Len(b) THEN Len(a) ELSE Len(b)) |-> <<a[i], b[i]>>]

\* CallReplace that puts the new pair before the old ones.
CallReplace_NewPairFirst(ns, self, field, value) ==
    LET replace == ns[self.cls].dict[DunderReplace]
    IN  IF replace.kind # "function" THEN Raised("TypeError")
        ELSE CallNew(ns[replace.cls], <<>>,
               dict_of(<< <<field, value>> >> \o zip(replace.names, self.items)))

\* self.__replace__(field, value), ns being the namespace the class text was
\* executed in.
CallReplace(ns, self, field, value) ==
    LET replace == ns[self.cls].dict[DunderReplace]
    IN  IF replace.kind # "function" THEN Raised("TypeError")
        ELSE CallNew(ns[replace.cls], <<>>,
               dict_of(zip(replace.names, self.items) \o << <<field, value>> >>))

\* getattr(self, name) through the class dictionary.
GetAttr(cls, self, name) ==
    IF name \notin DOMAIN cls.dict THEN Raised("AttributeError")
    ELSE LET a == cls.dict[name]
         IN  IF a.kind = "property"
             THEN IF a.itemgetter + 1 \in 1..Len(self.items)
                  THEN Returned(self.items[a.itemgetter + 1])
                  ELSE Raised("IndexError")
             ELSE Returned(a)

RECURSIVE PyEq(_, _)
\* a == b: tuples and instances of tuple subclasses compare element by
\* element, whatever their class.
PyEq(a, b) ==
    IF a.ty # b.ty THEN FALSE
    ELSE IF a.ty = "tuple"
         THEN /\ Len(a.items) = Len(b.items)
              /\ \A i \in 1..Len(a.items) : PyEq(a.items[i], b.items[i])
         ELSE a = b

(***************************************************************************)
(* pickle: dumps stores what __reduce_ex__ returns, loads calls it.        *)
(***************************************************************************)
\* self.__reduce_ex__(protocol) of a tuple subclass without __getnewargs__
\* of its own: protocols 0 and 1 rebuild with copyreg._reconstructor(cls,
\* tuple, tuple(self)), protocol 2 with copyreg.__newobj__(cls,
\* *tuple.__getnewargs__(self)), and tuple.__getnewargs__ is (tuple(self),).
reduce_ex(cls, self, protocol) ==
    [ callable |-> IF protocol < 2 THEN "_reconstructor" ELSE "__newobj__",
      module |-> cls.module,
      name |-> cls.name,
      args |-> <<PyTuple(TupleName, self.items)>> ]

\* loads(dumps(self, protocol)), the caller's module binding typename to the
\* class as the self-test does.
loads_dumps(ns, self, protocol) ==
    LET r == reduce_ex(ns[self.cls], self, protocol)
    IN  IF r.module # CallerModule \/ r.name \notin DOMAIN ns
        THEN Raised("PicklingError")
        ELSE IF r.callable = "_reconstructor"
             THEN tuple_new(r.name, r.args[1])
             ELSE CallNew(ns[r.name], r.args, <<>>)

(***************************************************************************)
(* The state machine: one call of NamedTuple, then uses of the class.      *)
(***************************************************************************)
NoCall ==
    [ op |-> "none", args |-> <<>>, kwargs |-> <<>>, self |-> None,
      field |-> <<>>, value |-> None, protocol |-> 0,
      exc |-> "None", ret |-> None ]

Init ==
    /\ typename \in TypeNames
    /\ declared \in SeqUpTo(FieldNames, MaxFields)
    /\ \E form \in Forms : s = FieldSpec(form, declared)
    /\ pc = "init"
    /\ exc = "None"
    /\ result = None
    /\ p = None
    /\ call = NoCall

\* result = NamedTuple(typename, s)
NamedTuple ==
    /\ pc = "init"
    /\ exc' = NamedTupleRaises(typename, s)
    /\ IF exc' = "None"
       THEN /\ result' = ClassObject(typename, field_names(s))
            /\ pc' = "returned"
       ELSE /\ result' = None
            /\ pc' = "raised"
    /\ UNCHANGED <<typename, declared, s, p, call>>

\* The namespace m after exec: the class under its name.
m == [n \in {typename} |-> result]

\* The names of the class's __fields__.
Fields == result.dict[DunderFields].items

\* The keyword names constructor calls are tried with.
KwNames == {Fields[i] : i \in 1..Len(Fields)} \cup {UnknownName}

\* The field names replace calls are tried with.
ReplaceNames == KwNames \cup {<<"c", "l", "s">>}

\* p = result(*args, **kwargs)
New(args, kwargs) ==
    /\ pc = "returned"
    /\ LET r == CallNew(result, args, kwargs)
       IN  /\ call' = [NoCall EXCEPT !.op = "new", !.args = args,
                          !.kwargs = kwargs, !.exc = r.exc, !.ret = r.value]
           /\ p' = IF r.exc = "None" THEN r.value ELSE p
    /\ UNCHANGED <<typename, declared, s, pc, exc, result>>

\* p.__replace__(field, value)
Replace(field, value) ==
    /\ pc = "returned"
    /\ p # None
    /\ LET r == CallReplace(m, p, field, value)
       IN  call' = [NoCall EXCEPT !.op = "replace", !.self = p,
                       !.field = field, !.value = value,
                       !.exc = r.exc, !.ret = r.value]
    /\ UNCHANGED <<typename, declared, s, pc, exc, result, p>>

\* d = dict(zip(p.__fields__, p))
ZipFields ==
    /\ pc = "returned"
    /\ p # None
    /\ LET f == GetAttr(result, p, DunderFields)
       IN  call' = [NoCall EXCEPT !.op = "zip", !.self = p, !.exc = f.exc,
                       !.ret = IF f.exc = "None"
                               THEN [ty |-> "dict",
                                     map |-> dict_of(zip(f.value.items, p.items))]
                               ELSE None]
    /\ UNCHANGED <<typename, declared, s, pc, exc, result, p>>

\* loads(dumps(p, protocol))
Pickle(protocol) ==
    /\ pc = "returned"
    /\ p # None
    /\ LET r == loads_dumps(m, p, protocol)
       IN  call' = [NoCall EXCEPT !.op = "pickle", !.self = p,
                       !.protocol = protocol, !.exc = r.exc, !.ret = r.value]
    /\ UNCHANGED <<typename, declared, s, pc, exc, result, p>>

\* The one constructor call of a run: any call with at most one argument too
\* many and keywords among the fields and one undeclared name.
Construct ==
    /\ pc = "returned"
    /\ call.op = "none"
    /\ \E args \in SeqUpTo(Values, Len(Fields) + 1),
          kwargs \in UNION { [D -> Values] : D \in SUBSET KwNames } :
            New(args, kwargs)

\* Any replace call, of a field, of "cls" or of the undeclared name.
ReplaceField ==
    /\ pc = "returned"
    /\ \E field \in ReplaceNames, value \in Values : Replace(field, value)

\* A pickle round trip under any protocol.
PickleRoundTrip == \E protocol \in Protocols : Pickle(protocol)

Next ==
    \/ NamedTuple
    \/ Construct
    \/ ReplaceField
    \/ ZipFields
    \/ PickleRoundTrip

Spec == Init /\ [][Next]_vars

(***************************************************************************)
(* Properties.                                                             *)
(***************************************************************************)
DeclaredSet == {declared[i] : i \in 1..Len(declared)}

\* The values a constructor call binds, field by field, when its positional
\* arguments are a prefix and its keywords the remaining fields.
BoundValues(args, kwargs) ==
    [i \in 1..Len(declared) |->
        IF i <= Len(args) THEN args[i] ELSE kwargs[declared[i]]]

\* The call's positional arguments are a prefix of the fields and its
\* keywords are exactly the remaining fields.
IsPrefixThenKeywords(args, kwargs) ==
    /\ Len(args) <= Len(declared)
    /\ DOMAIN kwargs = {declared[i] : i \in (Len(args) + 1)..Len(declared)}

IsFieldName(name) ==
    /\ name # <<>>
    /\ \A i \in 1..Len(name) : name[i] \in Letters \cup Digits \cup {"_"}
    /\ \E i \in 1..Len(name) : name[i] \notin Digits
    /\ name \notin Keywords

\* The type name and every field name is a name of the data model.
NamesAreFieldNames ==
    \A n \in DeclaredSet \cup {typename} : IsFieldName(n)

\* Some field name is written twice in the field specification.
HasDuplicateField ==
    \E i, j \in 1..Len(declared) : i # j /\ declared[i] = declared[j]

\* The type name and field names together hold a character that is neither
\* alphanumeric (for str.isalnum, which takes non-ASCII letters) nor an
\* underscore.
SomeNameHasBadChar ==
    \E n \in DeclaredSet \cup {typename} :
        \E i \in 1..Len(n) : n[i] \notin Letters \cup Digits \cup {"_"}

\* The type name and field names together hold no alphanumeric character.
NoNameHasAlnum ==
    \A n \in DeclaredSet \cup {typename} : \A i \in 1..Len(n) : n[i] = "_"

\* C2 as stated, for names with no other defect: a str field specification
\* with a field name written twice makes NamedTuple raise the ValueError of
\* the name validation and return no type.
C2_DuplicateRaisesValueError ==
    (pc # "init" /\ s.ty = "str" /\ HasDuplicateField /\ NamesAreFieldNames) =>
        (pc = "raised" /\ exc = "ValueError" /\ result = None)

\* C2 amended: a str field specification with a field name written twice
\* never yields a type: NamedTuple raises the ValueError of the validation
\* when the names hold a character that is neither alphanumeric nor an
\* underscore or hold no alphanumeric character, and otherwise SyntaxError
\* when the class text is executed.
C2_DuplicateRaises ==
    (pc # "init" /\ s.ty = "str" /\ HasDuplicateField) =>
        /\ pc = "raised" /\ result = None
        /\ exc = IF SomeNameHasBadChar \/ NoNameHasAlnum
                 THEN "ValueError" ELSE "SyntaxError"

\* NamedTuple('T', 'x x') has raised SyntaxError.
C2_Witness ==
    /\ pc = "raised" /\ exc = "SyntaxError" /\ s.ty = "str"
    /\ typename = <<"T">> /\ declared = << <<"x">>, <<"x">> >>

\* The name holds a character outside [A-Za-z0-9_].
HasCharOutsideAsciiWord(name) ==
    \E i \in 1..Len(name) : name[i] \notin AsciiLetters \cup Digits \cup {"_"}

\* The name is made of underscores only.
OnlyUnderscores(name) ==
    name # <<>> /\ \A i \in 1..Len(name) : name[i] = "_"

\* C3 as stated, for names with no other defect: NamedTuple raises
\* ValueError and returns no type whenever the type name or a field name
\* holds a character outside [A-Za-z0-9_] or is made of underscores only.
C3_BadNameRaisesValueError ==
    (pc # "init" /\ s.ty = "str" /\ ~HasDuplicateField /\ NamesAreFieldNames
        /\ <<"c", "l", "s">> \notin DeclaredSet
        /\ \E n \in DeclaredSet \cup {typename} :
              HasCharOutsideAsciiWord(n) \/ OnlyUnderscores(n)) =>
        (pc = "raised" /\ exc = "ValueError" /\ result = None)

\* C3 amended: NamedTuple called with a str field specification raises
\* ValueError, and returns no type, exactly when the type name and field
\* names together hold a character that is neither alphanumeric (for
\* str.isalnum, which takes non-ASCII letters) nor an underscore, or hold
\* no alphanumeric character at all.
C3_ValueErrorIffNotAlnum ==
    (pc # "init" /\ s.ty = "str") =>
        /\ (exc = "ValueError") <=> (SomeNameHasBadChar \/ NoNameHasAlnum)
        /\ (exc = "ValueError") => (pc = "raised" /\ result = None)

\* NamedTuple('T', ...) has raised ValueError for the field name 'x!'.
C3_Witness ==
    /\ pc = "raised" /\ exc = "ValueError" /\ s.ty = "str"
    /\ typename = <<"T">> /\ <<"x", "!">> \in DeclaredSet

\* The class has the declared fields in the declared order, and as many
\* constructor parameters after cls.
HasDeclaredFields ==
    /\ Fields = declared
    /\ Len(result.dict[DunderNew].params) = Len(declared) + 1

\* C4 as stated: names that the whitespace-separated str is accepted with
\* are accepted in every form, the list included, and give a class with the
\* same fields in the same order.
C4_EveryFormSucceeds ==
    (pc # "init"
        /\ NamedTupleRaises(typename, FieldSpec("spaces", declared)) = "None") =>
        (pc = "returned" /\ HasDeclaredFields)

\* C4 amended: a str of the names separated by commas, by commas and
\* blanks, or by blanks ends as the whitespace-separated str of the same
\* names does: the same exception, or a class with the declared fields in
\* the declared order; a list of the names raises AttributeError and no
\* type is returned.
C4_StringFormsAgreeListRaises ==
    (pc # "init") =>
        /\ s.ty = "list" => (pc = "raised" /\ exc = "AttributeError" /\ result = None)
        /\ s.ty = "str" =>
             /\ exc = NamedTupleRaises(typename, FieldSpec("spaces", declared))
             /\ exc = "None" => (pc = "returned" /\ HasDeclaredFields)

\* NamedTuple('T', 'x, y') has returned a class.
C4_Witness ==
    /\ pc = "returned" /\ typename = <<"T">>
    /\ s = [ty |-> "str", chars |-> <<"x", ",", " ", "y">>]

C6_ReplaceUnknownField ==
    (pc = "returned" /\ call.op = "replace" /\ call.field \notin DeclaredSet) =>
        (call.exc = "TypeError" /\ call.ret = None /\ p = call.self)

\* Replacing the undeclared field 'z' of a two-field instance has raised.
C6_Witness ==
    /\ pc = "returned" /\ call.op = "replace" /\ call.exc # "None"
    /\ call.field = UnknownName /\ Len(declared) = 2

BindsEachFieldOnce(args, kwargs) ==
    /\ Len(args) <= Len(declared)
    /\ DOMAIN kwargs \subseteq DeclaredSet
    /\ \A i \in 1..Len(declared) :
          (i <= Len(args)) # (declared[i] \in DOMAIN kwargs)

\* An instance of the generated class.
IsInstance(v) == v.ty = "tuple" /\ v.cls = typename

C9_ReturnedTypeIsWellFormed ==
    /\ pc = "returned" =>
         /\ exc = "None" /\ result.ty = "type"
         /\ \A i \in 1..Len(Fields) : IsFieldName(Fields[i])
         /\ \A i, j \in 1..Len(Fields) : i # j => Fields[i] # Fields[j]
    /\ pc = "raised" =>
         /\ exc # "None" /\ result = None /\ p = None /\ call = NoCall

\* NamedTuple('T', 'if') has raised and returned nothing.
C9_Witness ==
    /\ pc = "raised" /\ typename = <<"T">> /\ s.ty = "str"
    /\ declared = << <<"i", "f">> >>

\* C10 as stated: loads(dumps(p)) returns a value equal to p.
C10_PickleRoundTrip ==
    (pc = "returned" /\ call.op = "pickle") =>
        (call.exc = "None" /\ PyEq(call.ret, call.self))

====
